---------------------------- MODULE Spec2Model ----------------------------
(***************************************************************************)
(* The implementors fragment src/implementors/core/marker/trait.Unpin.js:  *)
(*                                                                         *)
(*   (function() {var implementors = { "actix": [...],                     *)
(*                                     "actix_broker": [...] };            *)
(*    if (window.register_implementors) {                                  *)
(*        window.register_implementors(implementors);                      *)
(*    } else {                                                             *)
(*        window.pending_implementors = implementors;                      *)
(*    }})()                                                                *)
(*                                                                         *)
(* The state is the global object `window` (a mapping from the names of    *)
(* the globals that exist to their JavaScript values) together with the    *)
(* history of what the executions of the fragment did.  JavaScript values  *)
(* are tagged records, so that the language's own conversions (ToBoolean,  *)
(* property lookup, the call of a value) are computed and not assumed.     *)
(***************************************************************************)
EXTENDS Integers, Sequences, FiniteSets, TLC

VARIABLES
  window,     \* the global object: name of a global |-> its value
  last,       \* what the most recent execution of the fragment did
  calls,      \* every invocation of a function value so far, in order
  received,   \* the tables that reached the page shell, in order
  shellDone,  \* the page shell has run its initialisation
  envWrites   \* assignments to the two globals by other page scripts

vars == <<window, last, calls, received, shellDone, envWrites>>

\* Bounds of the model.
MaxRuns == 2        \* executions of the fragment
MaxEnvWrites == 2   \* assignments to the globals by other page scripts

---------------------------------------------------------------------------
\* JavaScript values.

Undefined == [type |-> "undefined"]
Null == [type |-> "null"]
Bool(b) == [type |-> "boolean", bool |-> b]
Num(n) == [type |-> "number", num |-> n]
Str(s) == [type |-> "string", str |-> s]
Arr(items) == [type |-> "array", items |-> items]

\* An object literal evaluates to a fresh object: ref is its identity.
NewObject(ref, props) == [type |-> "object", ref |-> ref, props |-> props]

\* A function value.  Its body is not part of the fragment; all the
\* fragment can observe of it is whether a call of it returns or throws.
Fn(name, throws) == [type |-> "function", name |-> name, throws |-> throws]

\* array[i] with a 1-based index: undefined beyond the end of the array.
At(arr, i) == IF i \in 1..Len(arr.items) THEN arr.items[i] ELSE Undefined

\* if (v): the language's ToBoolean.
ToBoolean(v) ==
  CASE v.type = "undefined" -> FALSE
    [] v.type = "null" -> FALSE
    [] v.type = "boolean" -> v.bool
    [] v.type = "number" -> v.num # 0
    [] v.type = "string" -> v.str # ""
    [] OTHER -> TRUE

\* window.name read: a global that does not exist reads as undefined.
Get(win, name) == IF name \in DOMAIN win THEN win[name] ELSE Undefined

\* window.name = v: creates the global when it does not exist.
Put(win, name, v) ==
  [n \in (DOMAIN win) \cup {name} |-> IF n = name THEN v ELSE win[n]]

\* Completion of a statement list: normal, or an exception on its way to
\* the caller.
Normal == [type |-> "normal"]
Throw(v) == [type |-> "throw", value |-> v]

TypeError == [type |-> "error", name |-> "TypeError"]
\* The exception a throwing function raises: its own value, told apart from
\* any other by the function that raised it.
HookError(f) == [type |-> "error", name |-> "HookError", raisedBy |-> f.name]

\* f(args): a value that is not a function cannot be called (TypeError, no
\* invocation); a function is invoked once and returns or throws.
Call(f, args) ==
  IF f.type # "function"
    THEN [invoked |-> <<>>, completion |-> Throw(TypeError)]
    ELSE [invoked |-> <<[fn |-> f, args |-> args] >>,
          completion |-> IF f.throws THEN Throw(HookError(f)) ELSE Normal]

---------------------------------------------------------------------------
\* The compiled-in literal (lines 1-4 of the fragment).

\* src/implementors/core/marker/trait.Unpin.js, the value of key "actix"
actix_records ==
  Arr(<<
    Arr(<<Str("impl <a class=\"trait\" href=\"https://doc.rust-lang.org/nightly/core/marker/trait.Unpin.html\" title=\"trait core::marker::Unpin\">Unpin</a> for <a class=\"enum\" href=\"actix/prelude/enum.ActorState.html\" title=\"enum actix::prelude::ActorState\">ActorState</a>"), Num(1), Arr(<<Str("actix::actor::ActorState")>>)>>),
    Arr(<<Str("impl <a class=\"trait\" href=\"https://doc.rust-lang.org/nightly/core/marker/trait.Unpin.html\" title=\"trait core::marker::Unpin\">Unpin</a> for <a class=\"enum\" href=\"actix/prelude/enum.Running.html\" title=\"enum actix::prelude::Running\">Running</a>"), Num(1), Arr(<<Str("actix::actor::Running")>>)>>),
    Arr(<<Str("impl <a class=\"trait\" href=\"https://doc.rust-lang.org/nightly/core/marker/trait.Unpin.html\" title=\"trait core::marker::Unpin\">Unpin</a> for <a class=\"struct\" href=\"actix/prelude/struct.SpawnHandle.html\" title=\"struct actix::prelude::SpawnHandle\">SpawnHandle</a>"), Num(1), Arr(<<Str("actix::actor::SpawnHandle")>>)>>),
    Arr(<<Str("impl&lt;A&gt; <a class=\"trait\" href=\"https://doc.rust-lang.org/nightly/core/marker/trait.Unpin.html\" title=\"trait core::marker::Unpin\">Unpin</a> for <a class=\"struct\" href=\"actix/prelude/struct.Context.html\" title=\"struct actix::prelude::Context\">Context</a>&lt;A&gt;"), Num(1), Arr(<<Str("actix::context::Context")>>)>>),
    Arr(<<Str("impl&lt;A&gt; <a class=\"trait\" href=\"https://doc.rust-lang.org/nightly/core/marker/trait.Unpin.html\" title=\"trait core::marker::Unpin\">Unpin</a> for <a class=\"struct\" href=\"actix/dev/struct.ContextParts.html\" title=\"struct actix::dev::ContextParts\">ContextParts</a>&lt;A&gt;"), Num(1), Arr(<<Str("actix::contextimpl::ContextParts")>>)>>),
    Arr(<<Str("impl&lt;A, C&gt; <a class=\"trait\" href=\"https://doc.rust-lang.org/nightly/core/marker/trait.Unpin.html\" title=\"trait core::marker::Unpin\">Unpin</a> for <a class=\"struct\" href=\"actix/dev/struct.ContextFut.html\" title=\"struct actix::dev::ContextFut\">ContextFut</a>&lt;A, C&gt;"), Num(1), Arr(<<Str("actix::contextimpl::ContextFut")>>)>>),
    Arr(<<Str("impl&lt;M&gt; <a class=\"trait\" href=\"https://doc.rust-lang.org/nightly/core/marker/trait.Unpin.html\" title=\"trait core::marker::Unpin\">Unpin</a> for <a class=\"struct\" href=\"actix/prelude/struct.MessageResult.html\" title=\"struct actix::prelude::MessageResult\">MessageResult</a>&lt;M&gt;<span class=\"where fmt-newline\">where\n    &lt;M as <a class=\"trait\" href=\"actix/prelude/trait.Message.html\" title=\"trait actix::prelude::Message\">Message</a>&gt;::<a class=\"associatedtype\" href=\"actix/prelude/trait.Message.html#associatedtype.Result\" title=\"type actix::prelude::Message::Result\">Result</a>: <a class=\"trait\" href=\"https://doc.rust-lang.org/nightly/core/marker/trait.Unpin.html\" title=\"trait core::marker::Unpin\">Unpin</a>,</span>"), Num(1), Arr(<<Str("actix::handler::MessageResult")>>)>>),
    Arr(<<Str("impl&lt;A, T&gt; <a class=\"trait\" href=\"https://doc.rust-lang.org/nightly/core/marker/trait.Unpin.html\" title=\"trait core::marker::Unpin\">Unpin</a> for <a class=\"struct\" href=\"actix/prelude/struct.AtomicResponse.html\" title=\"struct actix::prelude::AtomicResponse\">AtomicResponse</a>&lt;A, T&gt;"), Num(1), Arr(<<Str("actix::handler::AtomicResponse")>>)>>),
    Arr(<<Str("impl&lt;I&gt; <a class=\"trait\" href=\"https://doc.rust-lang.org/nightly/core/marker/trait.Unpin.html\" title=\"trait core::marker::Unpin\">Unpin</a> for <a class=\"struct\" href=\"actix/prelude/struct.Response.html\" title=\"struct actix::prelude::Response\">Response</a>&lt;I&gt;<span class=\"where fmt-newline\">where\n    I: <a class=\"trait\" href=\"https://doc.rust-lang.org/nightly/core/marker/trait.Unpin.html\" title=\"trait core::marker::Unpin\">Unpin</a>,</span>"), Num(1), Arr(<<Str("actix::handler::Response")>>)>>),
    Arr(<<Str("impl&lt;A, I&gt; <a class=\"trait\" href=\"https://doc.rust-lang.org/nightly/core/marker/trait.Unpin.html\" title=\"trait core::marker::Unpin\">Unpin</a> for <a class=\"struct\" href=\"actix/prelude/struct.ActorResponse.html\" title=\"struct actix::prelude::ActorResponse\">ActorResponse</a>&lt;A, I&gt;<span class=\"where fmt-newline\">where\n    I: <a class=\"trait\" href=\"https://doc.rust-lang.org/nightly/core/marker/trait.Unpin.html\" title=\"trait core::marker::Unpin\">Unpin</a>,</span>"), Num(1), Arr(<<Str("actix::handler::ActorResponse")>>)>>),
    Arr(<<Str("impl&lt;A&gt; <a class=\"trait\" href=\"https://doc.rust-lang.org/nightly/core/marker/trait.Unpin.html\" title=\"trait core::marker::Unpin\">Unpin</a> for <a class=\"struct\" href=\"actix/dev/channel/struct.AddressSender.html\" title=\"struct actix::dev::channel::AddressSender\">AddressSender</a>&lt;A&gt;"), Num(1), Arr(<<Str("actix::address::channel::AddressSender")>>)>>),
    Arr(<<Str("impl&lt;A&gt; <a class=\"trait\" href=\"https://doc.rust-lang.org/nightly/core/marker/trait.Unpin.html\" title=\"trait core::marker::Unpin\">Unpin</a> for <a class=\"struct\" href=\"actix/dev/channel/struct.AddressReceiver.html\" title=\"struct actix::dev::channel::AddressReceiver\">AddressReceiver</a>&lt;A&gt;"), Num(1), Arr(<<Str("actix::address::channel::AddressReceiver")>>)>>),
    Arr(<<Str("impl&lt;A&gt; <a class=\"trait\" href=\"https://doc.rust-lang.org/nightly/core/marker/trait.Unpin.html\" title=\"trait core::marker::Unpin\">Unpin</a> for <a class=\"struct\" href=\"actix/dev/struct.Envelope.html\" title=\"struct actix::dev::Envelope\">Envelope</a>&lt;A&gt;"), Num(1), Arr(<<Str("actix::address::envelope::Envelope")>>)>>),
    Arr(<<Str("impl&lt;T&gt; <a class=\"trait\" href=\"https://doc.rust-lang.org/nightly/core/marker/trait.Unpin.html\" title=\"trait core::marker::Unpin\">Unpin</a> for <a class=\"enum\" href=\"actix/prelude/enum.SendError.html\" title=\"enum actix::prelude::SendError\">SendError</a>&lt;T&gt;<span class=\"where fmt-newline\">where\n    T: <a class=\"trait\" href=\"https://doc.rust-lang.org/nightly/core/marker/trait.Unpin.html\" title=\"trait core::marker::Unpin\">Unpin</a>,</span>"), Num(1), Arr(<<Str("actix::address::SendError")>>)>>),
    Arr(<<Str("impl <a class=\"trait\" href=\"https://doc.rust-lang.org/nightly/core/marker/trait.Unpin.html\" title=\"trait core::marker::Unpin\">Unpin</a> for <a class=\"enum\" href=\"actix/prelude/enum.MailboxError.html\" title=\"enum actix::prelude::MailboxError\">MailboxError</a>"), Num(1), Arr(<<Str("actix::address::MailboxError")>>)>>),
    Arr(<<Str("impl&lt;A&gt; <a class=\"trait\" href=\"https://doc.rust-lang.org/nightly/core/marker/trait.Unpin.html\" title=\"trait core::marker::Unpin\">Unpin</a> for <a class=\"struct\" href=\"actix/prelude/struct.Addr.html\" title=\"struct actix::prelude::Addr\">Addr</a>&lt;A&gt;"), Num(1), Arr(<<Str("actix::address::Addr")>>)>>),
    Arr(<<Str("impl&lt;A&gt; <a class=\"trait\" href=\"https://doc.rust-lang.org/nightly/core/marker/trait.Unpin.html\" title=\"trait core::marker::Unpin\">Unpin</a> for <a class=\"struct\" href=\"actix/struct.WeakAddr.html\" title=\"struct actix::WeakAddr\">WeakAddr</a>&lt;A&gt;"), Num(1), Arr(<<Str("actix::address::WeakAddr")>>)>>),
    Arr(<<Str("impl&lt;M&gt; <a class=\"trait\" href=\"https://doc.rust-lang.org/nightly/core/marker/trait.Unpin.html\" title=\"trait core::marker::Unpin\">Unpin</a> for <a class=\"struct\" href=\"actix/prelude/struct.Recipient.html\" title=\"struct actix::prelude::Recipient\">Recipient</a>&lt;M&gt;"), Num(1), Arr(<<Str("actix::address::Recipient")>>)>>),
    Arr(<<Str("impl&lt;M&gt; <a class=\"trait\" href=\"https://doc.rust-lang.org/nightly/core/marker/trait.Unpin.html\" title=\"trait core::marker::Unpin\">Unpin</a> for <a class=\"struct\" href=\"actix/struct.WeakRecipient.html\" title=\"struct actix::WeakRecipient\">WeakRecipient</a>&lt;M&gt;"), Num(1), Arr(<<Str("actix::address::WeakRecipient")>>)>>),
    Arr(<<Str("impl&lt;A&gt; <a class=\"trait\" href=\"https://doc.rust-lang.org/nightly/core/marker/trait.Unpin.html\" title=\"trait core::marker::Unpin\">Unpin</a> for <a class=\"struct\" href=\"actix/dev/struct.Mailbox.html\" title=\"struct actix::dev::Mailbox\">Mailbox</a>&lt;A&gt;"), Num(1), Arr(<<Str("actix::mailbox::Mailbox")>>)>>),
    Arr(<<Str("impl&lt;T&gt; <a class=\"trait\" href=\"https://doc.rust-lang.org/nightly/core/marker/trait.Unpin.html\" title=\"trait core::marker::Unpin\">Unpin</a> for <a class=\"struct\" href=\"actix/actors/mocker/struct.Mocker.html\" title=\"struct actix::actors::mocker::Mocker\">Mocker</a>&lt;T&gt;"), Num(1), Arr(<<Str("actix::actors::mocker::Mocker")>>)>>),
    Arr(<<Str("impl&lt;T, E&gt; <a class=\"trait\" href=\"https://doc.rust-lang.org/nightly/core/marker/trait.Unpin.html\" title=\"trait core::marker::Unpin\">Unpin</a> for <a class=\"struct\" href=\"actix/io/struct.Writer.html\" title=\"struct actix::io::Writer\">Writer</a>&lt;T, E&gt;"), Num(1), Arr(<<Str("actix::io::Writer")>>)>>),
    Arr(<<Str("impl&lt;I, T, U&gt; <a class=\"trait\" href=\"https://doc.rust-lang.org/nightly/core/marker/trait.Unpin.html\" title=\"trait core::marker::Unpin\">Unpin</a> for <a class=\"struct\" href=\"actix/io/struct.FramedWrite.html\" title=\"struct actix::io::FramedWrite\">FramedWrite</a>&lt;I, T, U&gt;<span class=\"where fmt-newline\">where\n    U: <a class=\"trait\" href=\"https://doc.rust-lang.org/nightly/core/marker/trait.Unpin.html\" title=\"trait core::marker::Unpin\">Unpin</a>,</span>"), Num(1), Arr(<<Str("actix::io::FramedWrite")>>)>>),
    Arr(<<Str("impl&lt;I, S&gt; <a class=\"trait\" href=\"https://doc.rust-lang.org/nightly/core/marker/trait.Unpin.html\" title=\"trait core::marker::Unpin\">Unpin</a> for <a class=\"struct\" href=\"actix/io/struct.SinkWrite.html\" title=\"struct actix::io::SinkWrite\">SinkWrite</a>&lt;I, S&gt;"), Num(1), Arr(<<Str("actix::io::SinkWrite")>>)>>),
    Arr(<<Str("impl <a class=\"trait\" href=\"https://doc.rust-lang.org/nightly/core/marker/trait.Unpin.html\" title=\"trait core::marker::Unpin\">Unpin</a> for <a class=\"struct\" href=\"actix/registry/struct.Registry.html\" title=\"struct actix::registry::Registry\">Registry</a>"), Num(1), Arr(<<Str("actix::registry::Registry")>>)>>),
    Arr(<<Str("impl <a class=\"trait\" href=\"https://doc.rust-lang.org/nightly/core/marker/trait.Unpin.html\" title=\"trait core::marker::Unpin\">Unpin</a> for <a class=\"struct\" href=\"actix/registry/struct.SystemRegistry.html\" title=\"struct actix::registry::SystemRegistry\">SystemRegistry</a>"), Num(1), Arr(<<Str("actix::registry::SystemRegistry")>>)>>),
    Arr(<<Str("impl&lt;A&gt; <a class=\"trait\" href=\"https://doc.rust-lang.org/nightly/core/marker/trait.Unpin.html\" title=\"trait core::marker::Unpin\">Unpin</a> for <a class=\"struct\" href=\"actix/sync/struct.SyncArbiter.html\" title=\"struct actix::sync::SyncArbiter\">SyncArbiter</a>&lt;A&gt;"), Num(1), Arr(<<Str("actix::sync::SyncArbiter")>>)>>),
    Arr(<<Str("impl&lt;A&gt; <a class=\"trait\" href=\"https://doc.rust-lang.org/nightly/core/marker/trait.Unpin.html\" title=\"trait core::marker::Unpin\">Unpin</a> for <a class=\"struct\" href=\"actix/sync/struct.SyncContext.html\" title=\"struct actix::sync::SyncContext\">SyncContext</a>&lt;A&gt;"), Num(1), Arr(<<Str("actix::sync::SyncContext")>>)>>),
    Arr(<<Str("impl&lt;T&gt; <a class=\"trait\" href=\"https://doc.rust-lang.org/nightly/core/marker/trait.Unpin.html\" title=\"trait core::marker::Unpin\">Unpin</a> for <a class=\"struct\" href=\"actix/utils/struct.Condition.html\" title=\"struct actix::utils::Condition\">Condition</a>&lt;T&gt;"), Num(1), Arr(<<Str("actix::utils::Condition")>>)>>),
    Arr(<<Str("impl&lt;'__pin, Fut, F&gt; <a class=\"trait\" href=\"https://doc.rust-lang.org/nightly/core/marker/trait.Unpin.html\" title=\"trait core::marker::Unpin\">Unpin</a> for <a class=\"enum\" href=\"actix/fut/try_future/enum.MapErr.html\" title=\"enum actix::fut::try_future::MapErr\">MapErr</a>&lt;Fut, F&gt;<span class=\"where fmt-newline\">where\n    __Origin&lt;'__pin, Fut, F&gt;: <a class=\"trait\" href=\"https://doc.rust-lang.org/nightly/core/marker/trait.Unpin.html\" title=\"trait core::marker::Unpin\">Unpin</a>,</span>")>>),
    Arr(<<Str("impl&lt;'__pin, S&gt; <a class=\"trait\" href=\"https://doc.rust-lang.org/nightly/core/marker/trait.Unpin.html\" title=\"trait core::marker::Unpin\">Unpin</a> for <a class=\"struct\" href=\"actix/fut/stream/struct.Timeout.html\" title=\"struct actix::fut::stream::Timeout\">Timeout</a>&lt;S&gt;<span class=\"where fmt-newline\">where\n    __Origin&lt;'__pin, S&gt;: <a class=\"trait\" href=\"https://doc.rust-lang.org/nightly/core/marker/trait.Unpin.html\" title=\"trait core::marker::Unpin\">Unpin</a>,</span>")>>),
    Arr(<<Str("impl&lt;'__pin, S, F, Fut&gt; <a class=\"trait\" href=\"https://doc.rust-lang.org/nightly/core/marker/trait.Unpin.html\" title=\"trait core::marker::Unpin\">Unpin</a> for <a class=\"struct\" href=\"actix/fut/stream/struct.Then.html\" title=\"struct actix::fut::stream::Then\">Then</a>&lt;S, F, Fut&gt;<span class=\"where fmt-newline\">where\n    __Origin&lt;'__pin, S, F, Fut&gt;: <a class=\"trait\" href=\"https://doc.rust-lang.org/nightly/core/marker/trait.Unpin.html\" title=\"trait core::marker::Unpin\">Unpin</a>,</span>")>>),
    Arr(<<Str("impl&lt;'__pin, Fut, F&gt; <a class=\"trait\" href=\"https://doc.rust-lang.org/nightly/core/marker/trait.Unpin.html\" title=\"trait core::marker::Unpin\">Unpin</a> for <a class=\"enum\" href=\"actix/fut/future/enum.Map.html\" title=\"enum actix::fut::future::Map\">Map</a>&lt;Fut, F&gt;<span class=\"where fmt-newline\">where\n    __Origin&lt;'__pin, Fut, F&gt;: <a class=\"trait\" href=\"https://doc.rust-lang.org/nightly/core/marker/trait.Unpin.html\" title=\"trait core::marker::Unpin\">Unpin</a>,</span>")>>),
    Arr(<<Str("impl&lt;'__pin, F&gt; <a class=\"trait\" href=\"https://doc.rust-lang.org/nightly/core/marker/trait.Unpin.html\" title=\"trait core::marker::Unpin\">Unpin</a> for <a class=\"struct\" href=\"actix/fut/future/struct.Timeout.html\" title=\"struct actix::fut::future::Timeout\">Timeout</a>&lt;F&gt;<span class=\"where fmt-newline\">where\n    __Origin&lt;'__pin, F&gt;: <a class=\"trait\" href=\"https://doc.rust-lang.org/nightly/core/marker/trait.Unpin.html\" title=\"trait core::marker::Unpin\">Unpin</a>,</span>")>>),
    Arr(<<Str("impl&lt;'__pin, S, F&gt; <a class=\"trait\" href=\"https://doc.rust-lang.org/nightly/core/marker/trait.Unpin.html\" title=\"trait core::marker::Unpin\">Unpin</a> for <a class=\"struct\" href=\"actix/fut/stream/struct.Map.html\" title=\"struct actix::fut::stream::Map\">Map</a>&lt;S, F&gt;<span class=\"where fmt-newline\">where\n    __Origin&lt;'__pin, S, F&gt;: <a class=\"trait\" href=\"https://doc.rust-lang.org/nightly/core/marker/trait.Unpin.html\" title=\"trait core::marker::Unpin\">Unpin</a>,</span>")>>),
    Arr(<<Str("impl&lt;'__pin, Fut, F&gt; <a class=\"trait\" href=\"https://doc.rust-lang.org/nightly/core/marker/trait.Unpin.html\" title=\"trait core::marker::Unpin\">Unpin</a> for <a class=\"enum\" href=\"actix/fut/try_future/enum.MapOk.html\" title=\"enum actix::fut::try_future::MapOk\">MapOk</a>&lt;Fut, F&gt;<span class=\"where fmt-newline\">where\n    __Origin&lt;'__pin, Fut, F&gt;: <a class=\"trait\" href=\"https://doc.rust-lang.org/nightly/core/marker/trait.Unpin.html\" title=\"trait core::marker::Unpin\">Unpin</a>,</span>")>>),
    Arr(<<Str("impl&lt;'__pin, F, A&gt; <a class=\"trait\" href=\"https://doc.rust-lang.org/nightly/core/marker/trait.Unpin.html\" title=\"trait core::marker::Unpin\">Unpin</a> for <a class=\"struct\" href=\"actix/fut/future/struct.FutureWrap.html\" title=\"struct actix::fut::future::FutureWrap\">FutureWrap</a>&lt;F, A&gt;<span class=\"where fmt-newline\">where\n    __Origin&lt;'__pin, F, A&gt;: <a class=\"trait\" href=\"https://doc.rust-lang.org/nightly/core/marker/trait.Unpin.html\" title=\"trait core::marker::Unpin\">Unpin</a>,\n    F: <a class=\"trait\" href=\"https://doc.rust-lang.org/nightly/core/future/future/trait.Future.html\" title=\"trait core::future::future::Future\">Future</a>,\n    A: <a class=\"trait\" href=\"actix/prelude/trait.Actor.html\" title=\"trait actix::prelude::Actor\">Actor</a>,</span>")>>),
    Arr(<<Str("impl&lt;'__pin, S, C&gt; <a class=\"trait\" href=\"https://doc.rust-lang.org/nightly/core/marker/trait.Unpin.html\" title=\"trait core::marker::Unpin\">Unpin</a> for <a class=\"struct\" href=\"actix/fut/stream/struct.Collect.html\" title=\"struct actix::fut::stream::Collect\">Collect</a>&lt;S, C&gt;<span class=\"where fmt-newline\">where\n    __Origin&lt;'__pin, S, C&gt;: <a class=\"trait\" href=\"https://doc.rust-lang.org/nightly/core/marker/trait.Unpin.html\" title=\"trait core::marker::Unpin\">Unpin</a>,</span>")>>),
    Arr(<<Str("impl&lt;'__pin, S, F, Fut, T&gt; <a class=\"trait\" href=\"https://doc.rust-lang.org/nightly/core/marker/trait.Unpin.html\" title=\"trait core::marker::Unpin\">Unpin</a> for <a class=\"struct\" href=\"actix/fut/stream/struct.Fold.html\" title=\"struct actix::fut::stream::Fold\">Fold</a>&lt;S, F, Fut, T&gt;<span class=\"where fmt-newline\">where\n    __Origin&lt;'__pin, S, F, Fut, T&gt;: <a class=\"trait\" href=\"https://doc.rust-lang.org/nightly/core/marker/trait.Unpin.html\" title=\"trait core::marker::Unpin\">Unpin</a>,</span>")>>),
    Arr(<<Str("impl&lt;'__pin, S, A&gt; <a class=\"trait\" href=\"https://doc.rust-lang.org/nightly/core/marker/trait.Unpin.html\" title=\"trait core::marker::Unpin\">Unpin</a> for <a class=\"struct\" href=\"actix/fut/stream/struct.StreamWrap.html\" title=\"struct actix::fut::stream::StreamWrap\">StreamWrap</a>&lt;S, A&gt;<span class=\"where fmt-newline\">where\n    __Origin&lt;'__pin, S, A&gt;: <a class=\"trait\" href=\"https://doc.rust-lang.org/nightly/core/marker/trait.Unpin.html\" title=\"trait core::marker::Unpin\">Unpin</a>,\n    S: <a class=\"trait\" href=\"actix/prelude/trait.Stream.html\" title=\"trait actix::prelude::Stream\">Stream</a>,\n    A: <a class=\"trait\" href=\"actix/prelude/trait.Actor.html\" title=\"trait actix::prelude::Actor\">Actor</a>,</span>")>>),
    Arr(<<Str("impl&lt;'__pin, A: <a class=\"trait\" href=\"actix/prelude/trait.Actor.html\" title=\"trait actix::prelude::Actor\">Actor</a>&gt; <a class=\"trait\" href=\"https://doc.rust-lang.org/nightly/core/marker/trait.Unpin.html\" title=\"trait core::marker::Unpin\">Unpin</a> for <a class=\"struct\" href=\"actix/utils/struct.IntervalFunc.html\" title=\"struct actix::utils::IntervalFunc\">IntervalFunc</a>&lt;A&gt;<span class=\"where fmt-newline\">where\n    __Origin&lt;'__pin, A&gt;: <a class=\"trait\" href=\"https://doc.rust-lang.org/nightly/core/marker/trait.Unpin.html\" title=\"trait core::marker::Unpin\">Unpin</a>,</span>")>>),
    Arr(<<Str("impl&lt;'__pin, A: <a class=\"trait\" href=\"actix/prelude/trait.Actor.html\" title=\"trait actix::prelude::Actor\">Actor</a>&gt; <a class=\"trait\" href=\"https://doc.rust-lang.org/nightly/core/marker/trait.Unpin.html\" title=\"trait core::marker::Unpin\">Unpin</a> for <a class=\"struct\" href=\"actix/utils/struct.TimerFunc.html\" title=\"struct actix::utils::TimerFunc\">TimerFunc</a>&lt;A&gt;<span class=\"where fmt-newline\">where\n    __Origin&lt;'__pin, A&gt;: <a class=\"trait\" href=\"https://doc.rust-lang.org/nightly/core/marker/trait.Unpin.html\" title=\"trait core::marker::Unpin\">Unpin</a>,</span>")>>),
    Arr(<<Str("impl&lt;'__pin, S, I, F, Fut&gt; <a class=\"trait\" href=\"https://doc.rust-lang.org/nightly/core/marker/trait.Unpin.html\" title=\"trait core::marker::Unpin\">Unpin</a> for <a class=\"struct\" href=\"actix/fut/stream/struct.SkipWhile.html\" title=\"struct actix::fut::stream::SkipWhile\">SkipWhile</a>&lt;S, I, F, Fut&gt;<span class=\"where fmt-newline\">where\n    __Origin&lt;'__pin, S, I, F, Fut&gt;: <a class=\"trait\" href=\"https://doc.rust-lang.org/nightly/core/marker/trait.Unpin.html\" title=\"trait core::marker::Unpin\">Unpin</a>,</span>")>>),
    Arr(<<Str("impl&lt;'__pin, A&gt; <a class=\"trait\" href=\"https://doc.rust-lang.org/nightly/core/marker/trait.Unpin.html\" title=\"trait core::marker::Unpin\">Unpin</a> for <a class=\"struct\" href=\"actix/prelude/struct.Supervisor.html\" title=\"struct actix::prelude::Supervisor\">Supervisor</a>&lt;A&gt;<span class=\"where fmt-newline\">where\n    __Origin&lt;'__pin, A&gt;: <a class=\"trait\" href=\"https://doc.rust-lang.org/nightly/core/marker/trait.Unpin.html\" title=\"trait core::marker::Unpin\">Unpin</a>,\n    A: <a class=\"trait\" href=\"actix/prelude/trait.Supervised.html\" title=\"trait actix::prelude::Supervised\">Supervised</a> + <a class=\"trait\" href=\"actix/prelude/trait.Actor.html\" title=\"trait actix::prelude::Actor\">Actor</a>&lt;Context = <a class=\"struct\" href=\"actix/prelude/struct.Context.html\" title=\"struct actix::prelude::Context\">Context</a>&lt;A&gt;&gt;,</span>")>>),
    Arr(<<Str("impl&lt;'__pin, S&gt; <a class=\"trait\" href=\"https://doc.rust-lang.org/nightly/core/marker/trait.Unpin.html\" title=\"trait core::marker::Unpin\">Unpin</a> for <a class=\"struct\" href=\"actix/fut/stream/struct.Finish.html\" title=\"struct actix::fut::stream::Finish\">Finish</a>&lt;S&gt;<span class=\"where fmt-newline\">where\n    __Origin&lt;'__pin, S&gt;: <a class=\"trait\" href=\"https://doc.rust-lang.org/nightly/core/marker/trait.Unpin.html\" title=\"trait core::marker::Unpin\">Unpin</a>,</span>")>>),
    Arr(<<Str("impl&lt;'__pin, A, B, F&gt; <a class=\"trait\" href=\"https://doc.rust-lang.org/nightly/core/marker/trait.Unpin.html\" title=\"trait core::marker::Unpin\">Unpin</a> for <a class=\"enum\" href=\"actix/fut/future/enum.Then.html\" title=\"enum actix::fut::future::Then\">Then</a>&lt;A, B, F&gt;<span class=\"where fmt-newline\">where\n    __Origin&lt;'__pin, A, B, F&gt;: <a class=\"trait\" href=\"https://doc.rust-lang.org/nightly/core/marker/trait.Unpin.html\" title=\"trait core::marker::Unpin\">Unpin</a>,</span>")>>),
    Arr(<<Str("impl&lt;'__pin, A, B, F&gt; <a class=\"trait\" href=\"https://doc.rust-lang.org/nightly/core/marker/trait.Unpin.html\" title=\"trait core::marker::Unpin\">Unpin</a> for <a class=\"enum\" href=\"actix/fut/try_future/enum.AndThen.html\" title=\"enum actix::fut::try_future::AndThen\">AndThen</a>&lt;A, B, F&gt;<span class=\"where fmt-newline\">where\n    __Origin&lt;'__pin, A, B, F&gt;: <a class=\"trait\" href=\"https://doc.rust-lang.org/nightly/core/marker/trait.Unpin.html\" title=\"trait core::marker::Unpin\">Unpin</a>,</span>")>>),
    Arr(<<Str("impl&lt;'__pin, S, I, F, Fut&gt; <a class=\"trait\" href=\"https://doc.rust-lang.org/nightly/core/marker/trait.Unpin.html\" title=\"trait core::marker::Unpin\">Unpin</a> for <a class=\"struct\" href=\"actix/fut/stream/struct.TakeWhile.html\" title=\"struct actix::fut::stream::TakeWhile\">TakeWhile</a>&lt;S, I, F, Fut&gt;<span class=\"where fmt-newline\">where\n    __Origin&lt;'__pin, S, I, F, Fut&gt;: <a class=\"trait\" href=\"https://doc.rust-lang.org/nightly/core/marker/trait.Unpin.html\" title=\"trait core::marker::Unpin\">Unpin</a>,</span>")>>)
  >>)

\* src/implementors/core/marker/trait.Unpin.js, the value of key "actix_broker"
actix_broker_records ==
  Arr(<<
    Arr(<<Str("impl&lt;T&gt; <a class=\"trait\" href=\"https://doc.rust-lang.org/nightly/core/marker/trait.Unpin.html\" title=\"trait core::marker::Unpin\">Unpin</a> for <a class=\"struct\" href=\"actix_broker/struct.Broker.html\" title=\"struct actix_broker::Broker\">Broker</a>&lt;T&gt;<span class=\"where fmt-newline\">where\n    T: <a class=\"trait\" href=\"https://doc.rust-lang.org/nightly/core/marker/trait.Unpin.html\" title=\"trait core::marker::Unpin\">Unpin</a>,</span>"), Num(1), Arr(<<Str("actix_broker::broker::Broker")>>)>>),
    Arr(<<Str("impl <a class=\"trait\" href=\"https://doc.rust-lang.org/nightly/core/marker/trait.Unpin.html\" title=\"trait core::marker::Unpin\">Unpin</a> for <a class=\"struct\" href=\"actix_broker/struct.SystemBroker.html\" title=\"struct actix_broker::SystemBroker\">SystemBroker</a>"), Num(1), Arr(<<Str("actix_broker::broker::SystemBroker")>>)>>),
    Arr(<<Str("impl <a class=\"trait\" href=\"https://doc.rust-lang.org/nightly/core/marker/trait.Unpin.html\" title=\"trait core::marker::Unpin\">Unpin</a> for <a class=\"struct\" href=\"actix_broker/struct.ArbiterBroker.html\" title=\"struct actix_broker::ArbiterBroker\">ArbiterBroker</a>"), Num(1), Arr(<<Str("actix_broker::broker::ArbiterBroker")>>)>>)
  >>)

\* Mutants of the literal: a record of two components; a flag of 0.
implementors_short_record ==
  [actix |-> actix_records,
   actix_broker |-> Arr(<<Arr(<<Str("impl"), Num(1)>>)>>)]

implementors_flag_zero ==
  [actix |-> actix_records,
   actix_broker |->
     Arr(<<Arr(<<Str("impl"), Num(0), Arr(<<Str("actix_broker")>>)>>)>>)]

\* var implementors = { "actix": [...], "actix_broker": [...] };
implementors ==
  [actix |-> actix_records, actix_broker |-> actix_broker_records]

---------------------------------------------------------------------------
\* The dispatch (line 4 of the fragment).

\* Mutants of the test: if (window.register_implementors !== undefined);
\* if (!window.register_implementors).
HookTestDefined(win) == Get(win, "register_implementors") # Undefined

HookTestInverted(win) == ~ToBoolean(Get(win, "register_implementors"))

\* if (window.register_implementors)
HookTest(win) == ToBoolean(Get(win, "register_implementors"))

\* Mutants of the then-branch: it also writes the pending slot; it calls
\* the hook a second time.
CallHookAndStore(win, table) ==
  LET r == Call(Get(win, "register_implementors"), <<table>>)
  IN  [window |-> Put(win, "pending_implementors", table),
       invoked |-> r.invoked, completion |-> r.completion]

\* Mutant of the then-branch: try { hook(table) } catch (e) { store }.
CallHookCatch(win, table) ==
  LET r == Call(Get(win, "register_implementors"), <<table>>)
  IN  IF r.completion.type = "throw"
        THEN [window |-> Put(win, "pending_implementors", table),
              invoked |-> r.invoked, completion |-> Normal]
        ELSE [window |-> win, invoked |-> r.invoked,
              completion |-> r.completion]

CallHookTwice(win, table) ==
  LET r == Call(Get(win, "register_implementors"), <<table>>)
  IN  [window |-> win, invoked |-> r.invoked \o r.invoked,
       completion |-> r.completion]

\* {window.register_implementors(implementors);}
CallHook(win, table) ==
  LET r == Call(Get(win, "register_implementors"), <<table>>)
  IN  [window |-> win, invoked |-> r.invoked, completion |-> r.completion]

\* Mutants of the else-branch: it hands over the table with the records of
\* a key in another order; it writes the slot only when the slot is empty.
StoreReordered(win, table) ==
  LET it == table.props.actix_broker.items
      props == [table.props EXCEPT
                  !.actix_broker = Arr(<<it[2], it[1], it[3]>>)]
  IN  [window |-> Put(win, "pending_implementors",
                      NewObject(table.ref, props)),
       invoked |-> <<>>, completion |-> Normal]

StoreIfEmpty(win, table) ==
  [window |-> IF ToBoolean(Get(win, "pending_implementors"))
                THEN win
                ELSE Put(win, "pending_implementors", table),
   invoked |-> <<>>, completion |-> Normal]

\* Mutant of the else-branch: it stores a copy of the table.
StoreCopy(win, table) ==
  [window |-> Put(win, "pending_implementors",
                  NewObject(table.ref + 100, table.props)),
   invoked |-> <<>>, completion |-> Normal]

\* else {window.pending_implementors = implementors;}
StorePending(win, table) ==
  [window |-> Put(win, "pending_implementors", table),
   invoked |-> <<>>, completion |-> Normal]

\* Mutant of the execution: the hook global changes between the test and
\* the call (the hook is seen for the test and is gone for the call).
FragmentResampled(win, ref) ==
  LET table == NewObject(ref, implementors)
      r == IF HookTest(win)
             THEN CallHook(Put(win, "register_implementors", Undefined),
                           table)
             ELSE StorePending(win, table)
  IN  [table |-> table,
       tested |-> Get(win, "register_implementors"),
       before |-> win,
       after |-> r.window,
       invoked |-> r.invoked,
       completion |-> r.completion]

\* Mutant of the execution: implementors = {...} without var, which
\* creates the global window.implementors.
FragmentGlobalVar(win, ref) ==
  LET table == NewObject(ref, implementors)
      w == Put(win, "implementors", table)
      r == IF HookTest(w) THEN CallHook(w, table)
                          ELSE StorePending(w, table)
  IN  [table |-> table,
       tested |-> Get(win, "register_implementors"),
       before |-> win,
       after |-> r.window,
       invoked |-> r.invoked,
       completion |-> r.completion]

\* (function() { ... })(): one execution of the fragment; ref is the
\* identity of the object the literal evaluates to in this execution.
Fragment(win, ref) ==
  LET table == NewObject(ref, implementors)
      r == IF HookTest(win) THEN CallHook(win, table)
                            ELSE StorePending(win, table)
  IN  [table |-> table,
       tested |-> Get(win, "register_implementors"),
       before |-> win,
       after |-> r.window,
       invoked |-> r.invoked,
       completion |-> r.completion]

---------------------------------------------------------------------------
\* The page around the fragment.

\* The hook the page shell installs.
ShellHook == Fn("shell", FALSE)

\* Values other page scripts may leave in window.register_implementors.
HookValues ==
  {Undefined, Null, Bool(FALSE), Num(0), Str(""), Num(1),
   Fn("recorder", FALSE), Fn("thrower", TRUE)}

\* The table of another fragment of the same kind (ref 0: not one of the
\* objects this fragment creates).
OtherTable == NewObject(0, [libA |-> Arr(<<>>)])

\* Values other page scripts may leave in window.pending_implementors.
PendingValues == {Undefined, OtherTable}

\* What the hooks do with their argument: the shell's hook hands it to the
\* shell, the others are opaque.
Delivered(invoked, via) ==
  IF Len(invoked) > 0 /\ invoked[1].fn = ShellHook
    THEN <<[via |-> via, value |-> invoked[1].args[1]] >>
    ELSE <<>>

NoRun ==
  [id |-> 0, table |-> Undefined, tested |-> Undefined,
   before |-> <<>>, after |-> <<>>, invoked |-> <<>>, completion |-> Normal]

Init ==
  /\ window = <<>>
  /\ last = NoRun
  /\ calls = <<>>
  /\ received = <<>>
  /\ shellDone = FALSE
  /\ envWrites = 0

\* The page loads the fragment's script: one execution, run to completion.
RunFragment ==
  /\ last.id < MaxRuns
  /\ LET id == last.id + 1
         r == Fragment(window, id)
     IN  /\ window' = r.after
         /\ last' = [id |-> id, table |-> r.table, tested |-> r.tested,
                     before |-> r.before, after |-> r.after,
                     invoked |-> r.invoked, completion |-> r.completion]
         /\ calls' = calls \o [i \in 1..Len(r.invoked) |->
                                [by |-> id, fn |-> r.invoked[i].fn,
                                 args |-> r.invoked[i].args]]
         /\ received' = received \o Delivered(r.invoked, "hook")
  /\ UNCHANGED <<shellDone, envWrites>>

\* Another page script assigns window.register_implementors.
SetHook ==
  /\ envWrites < MaxEnvWrites
  /\ \E v \in HookValues :
       window' = Put(window, "register_implementors", v)
  /\ envWrites' = envWrites + 1
  /\ UNCHANGED <<last, calls, received, shellDone>>

\* Another page script assigns window.pending_implementors.
SetPending ==
  /\ envWrites < MaxEnvWrites
  /\ \E v \in PendingValues :
       window' = Put(window, "pending_implementors", v)
  /\ envWrites' = envWrites + 1
  /\ UNCHANGED <<last, calls, received, shellDone>>

\* The result of the shell's initialisation: it installs its hook, then
\* picks up the pending slot once (reads it and clears it).
ShellPickup(win) ==
  LET installed == Put(win, "register_implementors", ShellHook)
      pending == Get(installed, "pending_implementors")
  IN  IF ToBoolean(pending)
        THEN [window |-> Put(installed, "pending_implementors", Undefined),
              invoked |-> Call(ShellHook, <<pending>>).invoked]
        ELSE [window |-> installed, invoked |-> <<>>]

\* The page shell initialises, once per page load.
ShellInit ==
  /\ ~shellDone
  /\ LET r == ShellPickup(window)
     IN  /\ window' = r.window
         /\ calls' = calls \o [i \in 1..Len(r.invoked) |->
                                [by |-> 0, fn |-> r.invoked[i].fn,
                                 args |-> r.invoked[i].args]]
         /\ received' = received \o Delivered(r.invoked, "pickup")
  /\ shellDone' = TRUE
  /\ UNCHANGED <<last, envWrites>>

Next == RunFragment \/ SetHook \/ SetPending \/ ShellInit

Spec == Init /\ [][Next]_vars

---------------------------------------------------------------------------
\* Vocabulary of the properties: what the most recent execution did.

Ran == last.id >= 1

HookBefore == Get(last.before, "register_implementors")
PendingBefore == Get(last.before, "pending_implementors")
PendingAfter == Get(last.after, "pending_implementors")

\* The calls made by the most recent execution, as the page saw them.
CallsOfLast == {i \in DOMAIN calls : calls[i].by = last.id}

\* The hook was invoked with the table: one invocation, of the value in
\* the hook global, with the table as its only argument.
HookInvoked ==
  /\ Len(last.invoked) = 1
  /\ last.invoked[1].fn = HookBefore
  /\ last.invoked[1].args = <<last.table>>
  /\ Cardinality(CallsOfLast) = 1

\* The table was written to the pending slot (the table of an execution is
\* a fresh object, so no earlier write can have put it there).
Stored == PendingAfter = last.table

Callable(v) == v.type = "function"

---------------------------------------------------------------------------
\* C1 as stated: whatever value the hook global holds, an execution either
\* invokes the hook with the table or writes the table to the pending slot,
\* never both and never neither, and the hook is invoked exactly when the
\* hook global is non-empty.
C1_ExactlyOneForEveryValue ==
  Ran => /\ (HookInvoked /\ ~Stored) \/ (~HookInvoked /\ Stored)
         /\ HookInvoked <=> ToBoolean(HookBefore)

\* C1 as amended: the same for every value that is falsy or a function; a
\* truthy value that is not a function makes the call raise a TypeError,
\* and then the hook is not invoked and the pending slot is not written.
C1_ExactlyOne ==
  Ran =>
    /\ (~ToBoolean(HookBefore) \/ Callable(HookBefore)) =>
         /\ (HookInvoked /\ ~Stored) \/ (~HookInvoked /\ Stored)
         /\ HookInvoked <=> ToBoolean(HookBefore)
    /\ (ToBoolean(HookBefore) /\ ~Callable(HookBefore)) =>
         /\ ~HookInvoked /\ ~Stored
         /\ last.invoked = <<>>
         /\ last.completion = Throw(TypeError)

\* Both outcomes have happened: the first execution invoked the hook, the
\* second one wrote the pending slot.
C1_Witness ==
  /\ last.id = 2
  /\ ~HookInvoked /\ Stored
  /\ \E i \in DOMAIN calls : calls[i].by = 1 /\ calls[i].args[1].ref = 1

\* C2: with a hook (a function) in the hook global before the execution,
\* the hook is invoked exactly once within the execution, with the table as
\* its only argument, and the execution writes nothing: the pending slot
\* and every other global are as before.
C2_HookPresent ==
  (Ran /\ Callable(HookBefore)) =>
    /\ last.invoked = <<[fn |-> HookBefore, args |-> <<last.table>>]>>
    /\ Cardinality(CallsOfLast) = 1
    /\ PendingAfter = PendingBefore
    /\ last.after = last.before

\* A hook was called while the pending slot held another fragment's table,
\* and the slot still holds it.
C2_Witness ==
  /\ Ran /\ Callable(HookBefore)
  /\ PendingBefore = OtherTable
  /\ PendingAfter = OtherTable
  /\ Cardinality(CallsOfLast) = 1

\* C3: with no hook before the execution, the pending slot afterwards holds
\* the very object the execution built, whose content is the literal, and
\* the execution invokes nothing, then or later, also when a hook is
\* installed afterwards.
C3_HookAbsent ==
  (Ran /\ ~ToBoolean(HookBefore)) =>
    /\ PendingAfter = last.table
    /\ last.table = NewObject(last.id, implementors)
    /\ last.invoked = <<>>
    /\ CallsOfLast = {}

\* A hook was installed after a hook-absent execution and stays uncalled.
C3_Witness ==
  /\ Ran /\ ~ToBoolean(HookBefore)
  /\ Callable(Get(window, "register_implementors"))
  /\ Get(window, "pending_implementors") = last.table
  /\ CallsOfLast = {}

\* The execution handed the table over, and the value that was handed over:
\* the argument of the hook, or the content of the pending slot.
HandedOver == Ran /\ (last.invoked # <<>> \/ ~ToBoolean(HookBefore))
Handed ==
  IF last.invoked # <<>> THEN last.invoked[1].args[1] ELSE PendingAfter

Keys(obj) == DOMAIN obj.props
Records(obj, k) == obj.props[k].items

\* C4: the table handed over has exactly the keys "actix" and
\* "actix_broker", with 48 and 3 records, and is record for record, in the
\* same order, the literal the execution was built from.
C4_TableAsLiteral ==
  HandedOver =>
    /\ Handed = last.table
    /\ Keys(Handed) = {"actix", "actix_broker"}
    /\ Len(Records(Handed, "actix")) = 48
    /\ Len(Records(Handed, "actix_broker")) = 3
    /\ \A k \in Keys(Handed) :
         \A i \in 1..Len(Records(Handed, k)) :
           Records(Handed, k)[i] = implementors[k].items[i]
    /\ At(Records(Handed, "actix")[1], 3)
         = Arr(<<Str("actix::actor::ActorState")>>)
    /\ At(Records(Handed, "actix_broker")[1], 3)
         = Arr(<<Str("actix_broker::broker::Broker")>>)
    /\ At(Records(Handed, "actix_broker")[3], 3)
         = Arr(<<Str("actix_broker::broker::ArbiterBroker")>>)

\* The table went to the pending slot in one execution after it went to a
\* hook in an earlier one.
C4_Witness ==
  /\ HandedOver /\ last.id = 2 /\ Stored
  /\ Keys(Handed) = {"actix", "actix_broker"}
  /\ \E i \in DOMAIN calls :
       calls[i].by = 1 /\ Keys(calls[i].args[1]) = {"actix", "actix_broker"}

\* C5: a hook-absent execution leaves in the pending slot its own table and
\* nothing of what the slot held before, whatever that was, also the table
\* of the hook-absent execution just before it; it completes normally and
\* changes nothing else.
C5_Overwrite ==
  (Ran /\ ~ToBoolean(HookBefore)) =>
    /\ PendingAfter = NewObject(last.id, implementors)
    /\ PendingAfter # PendingBefore
    /\ last.after = Put(last.before, "pending_implementors", last.table)
    /\ last.completion = Normal

\* Two hook-absent executions in a row: the second found the table of the
\* first in the slot and replaced it.
C5_Witness ==
  /\ last.id = 2 /\ ~ToBoolean(HookBefore)
  /\ PendingBefore = NewObject(1, implementors)
  /\ PendingAfter = NewObject(2, implementors)

\* C6: when the hook throws, the execution completes with the very
\* exception the hook raised, and has written nothing: the pending slot and
\* the hook global are as they were.
C6_HookThrows ==
  (Ran /\ Callable(HookBefore) /\ HookBefore.throws) =>
    /\ last.completion = Throw(HookError(HookBefore))
    /\ Len(last.invoked) = 1
    /\ PendingAfter = PendingBefore
    /\ Get(last.after, "register_implementors") = HookBefore
    /\ last.after = last.before

\* A hook threw while the pending slot did not exist.
C6_Witness ==
  /\ Ran /\ Callable(HookBefore) /\ HookBefore.throws
  /\ last.completion.type = "throw"
  /\ "pending_implementors" \notin DOMAIN last.after

\* C7 as stated: the hook is invoked, and the pending slot not written,
\* whenever the hook global holds a value other than undefined; the pending
\* slot is written only when it is undefined.
C7_DefinedDecides ==
  Ran => /\ (HookBefore # Undefined) => (HookInvoked /\ ~Stored)
         /\ Stored => (HookBefore = Undefined)

\* C7 as amended: the branch is decided by the truth value of the hook
\* global.  A truthy value is called with the table (a call that raises a
\* TypeError when the value is not a function) and the pending slot is not
\* written; with a falsy value, undefined or not, the pending slot is
\* written and nothing is called.
C7_TruthyDecides ==
  Ran =>
    /\ ToBoolean(HookBefore) =>
         /\ ~Stored /\ last.after = last.before
         /\ Callable(HookBefore) => HookInvoked
         /\ ~Callable(HookBefore) => last.completion = Throw(TypeError)
    /\ ~ToBoolean(HookBefore) =>
         /\ Stored /\ last.invoked = <<>> /\ last.completion = Normal

\* The hook global was defined and falsy, and the pending slot was written.
C7_Witness ==
  /\ Ran /\ Stored
  /\ "register_implementors" \in DOMAIN last.before
  /\ HookBefore \in {Null, Bool(FALSE), Num(0), Str("")}

IsString(v) == v.type = "string"
IsNumber(v) == v.type = "number"
IsStringArray(v) ==
  v.type = "array" /\ \A i \in 1..Len(v.items) : IsString(v.items[i])

FullRecord(r) ==
  /\ r.type = "array" /\ Len(r.items) = 3
  /\ IsString(r.items[1]) /\ IsNumber(r.items[2]) /\ IsStringArray(r.items[3])

MarkupOnlyRecord(r) ==
  r.type = "array" /\ Len(r.items) = 1 /\ IsString(r.items[1])

\* C8 as stated: every record of the table has exactly three components: a
\* markup string, a number, a sequence of strings.
C8_ThreeComponents ==
  HandedOver =>
    \A k \in Keys(Handed) :
      \A i \in 1..Len(Records(Handed, k)) : FullRecord(Records(Handed, k)[i])

\* C8 as amended: every record starts with a markup string and has either
\* the three components (markup string, number, sequence of strings) or
\* the markup string alone; the records 30 to 48 of "actix", and no other,
\* have the markup string alone.
C8_OneOrThreeComponents ==
  HandedOver =>
    \A k \in Keys(Handed) :
      \A i \in 1..Len(Records(Handed, k)) :
        LET r == Records(Handed, k)[i]
        IN  IF k = "actix" /\ i \in 30..48
              THEN MarkupOnlyRecord(r)
              ELSE FullRecord(r)

\* A table with records of both shapes was handed over.
C8_Witness ==
  /\ HandedOver
  /\ FullRecord(Records(Handed, "actix")[29])
  /\ MarkupOnlyRecord(Records(Handed, "actix")[30])

\* C10 as stated: the second component of every record is the number 1.
C10_FlagOneEverywhere ==
  HandedOver =>
    \A k \in Keys(Handed) :
      \A i \in 1..Len(Records(Handed, k)) :
        At(Records(Handed, k)[i], 2) = Num(1)

\* C10 as amended: every record that has a second component has the number
\* 1 there, under both keys; the records 30 to 48 of "actix" have none.
C10_FlagOneWherePresent ==
  HandedOver =>
    \A k \in Keys(Handed) :
      \A i \in 1..Len(Records(Handed, k)) :
        LET r == Records(Handed, k)[i]
        IN  /\ Len(r.items) >= 2 => At(r, 2) = Num(1)
            /\ Len(r.items) < 2 <=> (k = "actix" /\ i \in 30..48)

\* A table was handed over in which both keys have records with the flag
\* and "actix" has a record without.
C10_Witness ==
  /\ HandedOver
  /\ At(Records(Handed, "actix")[1], 2) = Num(1)
  /\ At(Records(Handed, "actix_broker")[3], 2) = Num(1)
  /\ At(Records(Handed, "actix")[48], 2) = Undefined

\* C9: on a page where the fragment runs once, the shell initialises once
\* and no other script touches the two globals, the table reaches the
\* shell exactly once.  Fragment after the shell: through the hook call, and
\* neither the pickup nor the pending slot has the table.  Fragment before
\* the shell: through the pickup, which clears the slot, and the fragment
\* has called nothing.  Until the shell initialises, the table waits in the
\* pending slot.
C9_DeliveredOnce ==
  (last.id = 1 /\ envWrites = 0) =>
    /\ shellDone /\ HookBefore = ShellHook =>
         /\ received = <<[via |-> "hook", value |-> last.table]>>
         /\ Cardinality(CallsOfLast) = 1 /\ Len(calls) = 1
         /\ Get(window, "pending_implementors") = Undefined
    /\ shellDone /\ HookBefore # ShellHook =>
         /\ received = <<[via |-> "pickup", value |-> last.table]>>
         /\ CallsOfLast = {} /\ Len(calls) = 1
         /\ Get(window, "pending_implementors") = Undefined
    /\ ~shellDone =>
         /\ received = <<>>
         /\ Get(window, "pending_implementors") = last.table

\* The fragment ran before the shell, and the shell picked the table up.
C9_Witness ==
  /\ last.id = 1 /\ envWrites = 0 /\ shellDone
  /\ HookBefore = Undefined
  /\ received = <<[via |-> "pickup", value |-> NewObject(1, implementors)]>>
  /\ Get(window, "register_implementors") = ShellHook

\* C11: the hook global does not change within an execution, and what the
\* execution calls is the value it tested.  Every invocation it makes is of
\* the tested value; a tested value that is a function is invoked (it is
\* not gone by the time of the call); a TypeError can only come from a
\* tested value that is truthy and not a function; and the hook global
\* holds after the execution the value that was tested.
C11_TestedIsCalled ==
  Ran =>
    /\ \A i \in DOMAIN last.invoked : last.invoked[i].fn = last.tested
    /\ \A i \in CallsOfLast : calls[i].fn = last.tested
    /\ (ToBoolean(last.tested) /\ Callable(last.tested)) =>
         last.invoked # <<>>
    /\ last.completion = Throw(TypeError) =>
         (ToBoolean(last.tested) /\ ~Callable(last.tested))
    /\ last.invoked # <<>> => ToBoolean(last.tested)
    /\ Get(last.after, "register_implementors") = last.tested

\* Two executions found different functions in the hook global, and each
\* called the one it tested.
C11_Witness ==
  /\ last.id = 2 /\ Callable(last.tested)
  /\ last.invoked # <<>> /\ last.invoked[1].fn = last.tested
  /\ \E i \in DOMAIN calls : calls[i].by = 1 /\ calls[i].fn # last.tested
  /\ \E i \in DOMAIN calls : calls[i].by = 2 /\ calls[i].fn = last.tested

\* A window without the pending slot, and the windows that differ from win
\* in the pending slot alone.
WithoutPending(win) ==
  [n \in (DOMAIN win) \ {"pending_implementors"} |-> win[n]]

PendingVariants(win) ==
  {WithoutPending(win)}
    \cup {Put(win, "pending_implementors", p) : p \in PendingValues}

\* C12: an execution leaves the hook global as it was (existing or not,
\* and with the same value), creates no global other than the pending slot
\* (none named implementors in particular) and removes none; it does not
\* read the pending slot (with any other content of the slot it would have
\* tested, called and completed the same, and left the same globals but
\* for the slot) and does not clear it; and an execution that took the
\* hook branch leaves every global as it was.
C12_FragmentFrame ==
  Ran =>
    /\ ("register_implementors" \in DOMAIN last.after)
         <=> ("register_implementors" \in DOMAIN last.before)
    /\ Get(last.after, "register_implementors") = HookBefore
    /\ DOMAIN last.before \subseteq DOMAIN last.after
    /\ DOMAIN last.after
         \subseteq (DOMAIN last.before) \cup {"pending_implementors"}
    /\ "implementors" \notin DOMAIN last.after
    /\ PendingAfter \in {PendingBefore, last.table}
    /\ ToBoolean(HookBefore) => last.after = last.before
    /\ \A w \in PendingVariants(last.before) :
         LET r == Fragment(w, last.id)
         IN  /\ r.tested = last.tested
             /\ r.invoked = last.invoked
             /\ r.completion = last.completion
             /\ WithoutPending(r.after) = WithoutPending(last.after)
             /\ IF Stored
                  THEN Get(r.after, "pending_implementors") = last.table
                  ELSE r.after = w

\* A hook was called on a page where the pending slot never existed: after
\* the execution the hook global is the only global.
C12_Witness ==
  /\ Ran /\ Callable(HookBefore) /\ last.invoked # <<>>
  /\ DOMAIN last.before = {"register_implementors"}
  /\ DOMAIN last.after = {"register_implementors"}
  /\ last.after = last.before

===========================================================================
